---- MODULE Spec2Model ----
(***************************************************************************)
(* The file-backed cluster repository (ClusterRepositoryFileBased) of      *)
(* internal/sql/repository: the cluster table of the embedded SQLite file, *)
(* the Entity <-> Model translation, and the repository operations, each   *)
(* with the statement it hands to gorm and what SQLite does with it.       *)
(***************************************************************************)
EXTENDS Integers, Sequences, FiniteSets, TLC

\* ------------------------------------------------------------------ bounds
\* Ids the model lets the table reach: Save is not taken beyond it.
MaxId == 2

Ids == 1..MaxId

\* ------------------------------------------------------------ input values
ClusterNames == {"c1", "c2"}
ConnErrors == {"", "dial timeout"}
\* the sorted key order json.Marshal writes a map in
KeyOrder == <<"host", "token">>

NilMap == [isNil |-> TRUE, kv |-> <<>>]
TokenMap == [isNil |-> FALSE, kv |-> [k \in {"token"} |-> "abc"]]

\* *bool
NilPtr == [nil |-> TRUE, val |-> FALSE]
Ptr(b) == [nil |-> FALSE, val |-> b]

\* ------------------------------------------------------------------ errors
NoErr == "nil"
ErrProcess == "failed to process cluster data"
ErrFetch == "failed to fetch cluster"
ErrUpdate == "failed to update cluster"
ErrDelete == "failed to delete cluster"
ErrStatus == "failed to update cluster status"
RepositoryErrors == {ErrProcess, ErrFetch, ErrUpdate, ErrDelete, ErrStatus}
\* what gorm / database/sql / SQLite hand back in result.Error
EngNoColumn == "engine: no such column"
EngUnique == "engine: UNIQUE constraint failed: cluster_entities.id"
EngNoWhere == "engine: WHERE conditions required"
EngBadArg == "engine: sql: converting argument $1 type: unsupported type"
EngIO == "engine: disk I/O error"
EngineErrors == {EngNoColumn, EngUnique, EngNoWhere, EngBadArg, EngIO}

\* ------------------------------------------------------- Encoding Adapter
\* Config text is a sequence of JSON tokens; the empty sequence is the
\* empty string. A string token stands for the literal between its quotes.

\* Go strings that are not plain text: one with a double quote in it, one
\* holding the byte 0xFF (not valid UTF-8), and the character U+FFFD
QuotedString == "say \"hi\""
InvalidUtf8 == "<0xFF>"
ReplacementChar == "<U+FFFD>"

\* the literal json.Marshal writes for a string: the quote escaped, a byte
\* that is not valid UTF-8 written as the escape of U+FFFD
encodeString(str) ==
    CASE str = QuotedString -> "say \\\"hi\\\""
      [] str = InvalidUtf8 -> "\\ufffd"
      [] OTHER -> str

\* the string json.Unmarshal reads from a literal
decodeString(lit) ==
    CASE lit = "say \\\"hi\\\"" -> QuotedString
      [] lit = "\\ufffd" -> ReplacementChar
      [] lit = InvalidUtf8 -> ReplacementChar
      [] OTHER -> lit

RECURSIVE MarshalPairs(_, _)
MarshalPairs(kv, i) ==
    IF i > Len(KeyOrder) THEN <<>>
    ELSE LET k == KeyOrder[i]
             rest == MarshalPairs(kv, i + 1)
         IN IF k \in DOMAIN kv
            THEN <<encodeString(k), ":", encodeString(kv[k])>>
                    \o (IF rest = <<>> THEN <<>> ELSE <<",">> \o rest)
            ELSE rest

\* json.Marshal(model.Config) of a map[string]string: never an error
jsonMarshal(m) ==
    IF m.isNil THEN <<"null">>
    ELSE <<"{">> \o MarshalPairs(m.kv, 1) \o <<"}">>

\* the members of a JSON object body: k : v (, k : v)*
RECURSIVE ParsePairs(_)
ParsePairs(toks) ==
    IF Len(toks) < 3 \/ toks[2] # ":" \/ toks[1] \in {"{", "}", ":", ","}
                     \/ toks[3] \in {"{", "}", ":", ","}
    THEN [ok |-> FALSE, kv |-> <<>>]
    ELSE LET key == decodeString(toks[1])
             val == decodeString(toks[3])
             one == [k \in {key} |-> val]
         IN IF Len(toks) = 3 THEN [ok |-> TRUE, kv |-> one]
            ELSE IF toks[4] # "," THEN [ok |-> FALSE, kv |-> <<>>]
            ELSE LET rest == ParsePairs(SubSeq(toks, 5, Len(toks)))
                 IN [ok |-> rest.ok,
                     kv |-> [k \in {key} \cup DOMAIN rest.kv |->
                               IF k \in DOMAIN rest.kv THEN rest.kv[k] ELSE val]]

\* json.Unmarshal(text, &clusterConfig) into the map made just before
jsonUnmarshal(text) ==
    IF text = <<"null">> THEN [ok |-> TRUE, kv |-> <<>>]
    ELSE IF Len(text) < 2 \/ text[1] # "{" \/ text[Len(text)] # "}"
    THEN [ok |-> FALSE, kv |-> <<>>]
    ELSE IF Len(text) = 2 THEN [ok |-> TRUE, kv |-> <<>>]
    ELSE ParsePairs(SubSeq(text, 2, Len(text) - 1))

\* ------------------------------------------------------------ Entity/Model
Nil == [Id |-> -1]

ZeroEntity ==
    [ID |-> 0, ClusterName |-> "", ServerUrl |-> "", Active |-> NilPtr,
     Config |-> <<>>, K8sVersion |-> "", ErrorInConnecting |-> "",
     CreatedOn |-> 0, CreatedBy |-> 0, UpdatedOn |-> 0, UpdatedBy |-> 0]

convertToEntity(model) ==
    [err |-> NoErr,
     entity |->
       [ID |-> model.Id, ClusterName |-> model.ClusterName,
        ServerUrl |-> model.ServerUrl, Config |-> jsonMarshal(model.Config),
        Active |-> Ptr(model.Active), K8sVersion |-> model.K8sVersion,
        ErrorInConnecting |-> model.ErrorInConnecting,
        CreatedOn |-> model.CreatedOn, CreatedBy |-> model.CreatedBy,
        UpdatedOn |-> model.UpdatedOn, UpdatedBy |-> model.UpdatedBy]]

\* (a decode failure only logged: the Cluster goes back with an empty
\* Config)
convertToModel_lenient(entity) ==
    LET dec == IF Len(entity.Config) > 0 THEN jsonUnmarshal(entity.Config)
               ELSE [ok |-> TRUE, kv |-> <<>>]
    IN [err |-> NoErr,
        bean |->
          [Id |-> entity.ID, ClusterName |-> entity.ClusterName,
           ServerUrl |-> entity.ServerUrl,
           Config |-> [isNil |-> FALSE, kv |-> IF dec.ok THEN dec.kv ELSE <<>>],
           K8sVersion |-> entity.K8sVersion,
           ErrorInConnecting |-> entity.ErrorInConnecting,
           CreatedOn |-> entity.CreatedOn, CreatedBy |-> entity.CreatedBy,
           UpdatedOn |-> entity.UpdatedOn, UpdatedBy |-> entity.UpdatedBy,
           Active |-> IF entity.Active.nil THEN FALSE ELSE entity.Active.val]]

convertToModel(entity) ==
    LET dec == IF Len(entity.Config) > 0 THEN jsonUnmarshal(entity.Config)
               ELSE [ok |-> TRUE, kv |-> <<>>]
    IN IF ~dec.ok THEN [err |-> ErrProcess, bean |-> Nil]
       ELSE [err |-> NoErr,
             bean |->
               [Id |-> entity.ID, ClusterName |-> entity.ClusterName,
                ServerUrl |-> entity.ServerUrl,
                Config |-> [isNil |-> FALSE, kv |-> dec.kv],
                K8sVersion |-> entity.K8sVersion,
                ErrorInConnecting |-> entity.ErrorInConnecting,
                CreatedOn |-> entity.CreatedOn, CreatedBy |-> entity.CreatedBy,
                UpdatedOn |-> entity.UpdatedOn, UpdatedBy |-> entity.UpdatedBy,
                Active |-> IF entity.Active.nil THEN FALSE ELSE entity.Active.val]]

\* ---------------------------------------------------------- Embedded Store
\* The columns gorm's default naming gives the fields of ClusterEntity.
Columns ==
    {"id", "cluster_name", "server_url", "active", "config", "k8s_version",
     "error_in_connecting", "created_on", "created_by", "updated_on", "updated_by"}

\* The Go field names of ClusterEntity, which gorm also accepts as an
\* assignment's column, and the column each is stored in.
FieldColumn ==
    [ID |-> "id", ClusterName |-> "cluster_name", ServerUrl |-> "server_url",
     Active |-> "active", Config |-> "config", K8sVersion |-> "k8s_version",
     ErrorInConnecting |-> "error_in_connecting", CreatedOn |-> "created_on",
     CreatedBy |-> "created_by", UpdatedOn |-> "updated_on",
     UpdatedBy |-> "updated_by"]

\* SQLite matches an identifier of a statement against the column names
\* without regard to case; these are the identifiers the statements use.
FoldCase(ident) ==
    CASE ident = "ID" -> "id"
      [] ident = "Active" -> "active"
      [] ident = "ClusterName" -> "clustername"
      [] OTHER -> ident

\* a Where("<ident> = ?") condition goes into the statement as written
WhereColumnsResolve(idents) == \A c \in idents : FoldCase(c) \in Columns

\* Update(column, value): gorm looks the column up among the fields, and
\* otherwise quotes it into the SET clause as written
SetColumnResolves(column) ==
    IF column \in DOMAIN FieldColumn THEN TRUE ELSE column \in Columns

\* what database/sql can bind to a placeholder
Bindable(argType) == argType \in {"int", "string", "bool"}

MaxOf(S) == IF S = {} THEN 0 ELSE CHOOSE x \in S : \A y \in S : y <= x
MinOf(S) == CHOOSE x \in S : \A y \in S : x <= y

\* table[i] = ZeroEntity: no row has id i
StoredIds(t) == {i \in DOMAIN t : t[i].ID # 0}

\* (the condition written as  Active <> false, which a NULL would pass
\* in the model of a nullable column as  not false)
ActiveIds_notFalse(t) == {i \in StoredIds(t) : t[i].Active # Ptr(FALSE)}

\* rows that pass  Active = true  (a NULL active passes no comparison)
ActiveIds(t) == {i \in StoredIds(t) : ~t[i].Active.nil /\ t[i].Active.val}

\* (a rowid without AUTOINCREMENT: one more than the largest id stored)
NextId_rowid(t, s) == MaxOf(StoredIds(t)) + 1

\* id integer PRIMARY KEY AUTOINCREMENT: one more than the largest id the
\* table ever held
NextId(t, s) == MaxOf(StoredIds(t) \cup {s}) + 1

\* db.Model(e).Create(e)
gormCreate(t, s, entity, fault) ==
    IF fault THEN [err |-> EngIO, table |-> t, seq |-> s, id |-> entity.ID]
    ELSE IF entity.ID \in StoredIds(t)
    THEN [err |-> EngUnique, table |-> t, seq |-> s, id |-> entity.ID]
    ELSE LET id == IF entity.ID # 0 THEN entity.ID ELSE NextId(t, s)
         IN [err |-> NoErr,
             table |-> [t EXCEPT ![id] = [entity EXCEPT !.ID = id]],
             seq |-> MaxOf({s, id}), id |-> id]

\* (Active held as a plain bool, whose zero value is false)
IsZeroField_plainBool(f, v) ==
    CASE f \in {"ClusterName", "ServerUrl", "K8sVersion", "ErrorInConnecting"} -> v = ""
      [] f = "Config" -> Len(v) = 0
      [] f = "Active" -> v.nil \/ ~v.val
      [] OTHER -> v = 0

\* the zero value of a field's type
IsZeroField(f, v) ==
    CASE f \in {"ClusterName", "ServerUrl", "K8sVersion", "ErrorInConnecting"} -> v = ""
      [] f = "Config" -> Len(v) = 0
      [] f = "Active" -> v.nil
      [] OTHER -> v = 0

\* the fields Updates(struct) writes: the non-zero ones, the primary key
\* being the row's condition
UpdatedRow(row, entity) ==
    [f \in DOMAIN row |->
        IF f # "ID" /\ ~IsZeroField(f, entity[f]) THEN entity[f] ELSE row[f]]

\* (db.Save(e): an upsert, which inserts the row when none has the id)
gormUpdates_upsert(t, entity, fault) ==
    IF entity.ID = 0 THEN [err |-> EngNoWhere, table |-> t]
    ELSE IF fault THEN [err |-> EngIO, table |-> t]
    ELSE [err |-> NoErr, table |-> [t EXCEPT ![entity.ID] = entity]]

\* db.Model(e).Updates(e)
gormUpdates(t, entity, fault) ==
    IF entity.ID = 0 THEN [err |-> EngNoWhere, table |-> t]
    ELSE IF fault THEN [err |-> EngIO, table |-> t]
    ELSE IF entity.ID \notin StoredIds(t) THEN [err |-> NoErr, table |-> t]
    ELSE [err |-> NoErr,
          table |-> [t EXCEPT ![entity.ID] = UpdatedRow(t[entity.ID], entity)]]

\* db.Delete(e)
gormDelete(t, entity, fault) ==
    IF entity.ID = 0 THEN [err |-> EngNoWhere, table |-> t]
    ELSE IF fault THEN [err |-> EngIO, table |-> t]
    ELSE IF entity.ID \notin StoredIds(t) THEN [err |-> NoErr, table |-> t]
    ELSE [err |-> NoErr, table |-> [t EXCEPT ![entity.ID] = ZeroEntity]]

\* db.Where(...).Where(...).Find(dest): the error of the statement, and the
\* ids of the rows it selects
gormFind(t, idents, argTypes, matches, fault) ==
    IF fault THEN [err |-> EngIO, ids |-> {}]
    ELSE IF \E a \in argTypes : ~Bindable(a) THEN [err |-> EngBadArg, ids |-> {}]
    ELSE IF ~WhereColumnsResolve(idents) THEN [err |-> EngNoColumn, ids |-> {}]
    ELSE [err |-> NoErr, ids |-> matches]

\* Find into one struct keeps the first row, and leaves the struct as it
\* was when there is none
FirstRow(t, ids) == IF ids = {} THEN ZeroEntity ELSE t[MinOf(ids)]

\* ------------------------------------------------------ Cluster Repository
Save(t, s, model, fault) ==
    LET conv == convertToEntity(model)
        res == gormCreate(t, s, conv.entity, fault)
    IN IF conv.err # NoErr THEN [err |-> conv.err, table |-> t, seq |-> s, model |-> model]
       ELSE IF res.err # NoErr THEN [err |-> res.err, table |-> t, seq |-> s, model |-> model]
       ELSE [err |-> NoErr, table |-> res.table, seq |-> res.seq,
             model |-> [model EXCEPT !.Id = res.id]]

Update(t, model, fault) ==
    LET conv == convertToEntity(model)
        res == gormUpdates(t, conv.entity, fault)
    IN IF conv.err # NoErr THEN [err |-> ErrUpdate, table |-> t]
       ELSE IF res.err # NoErr THEN [err |-> ErrUpdate, table |-> t]
       ELSE [err |-> NoErr, table |-> res.table]

Delete(t, model, fault) ==
    LET conv == convertToEntity(model)
        res == gormDelete(t, conv.entity, fault)
    IN IF conv.err # NoErr THEN [err |-> ErrDelete, table |-> t]
       ELSE IF res.err # NoErr THEN [err |-> ErrDelete, table |-> t]
       ELSE [err |-> NoErr, table |-> res.table]

\* (Active set on the caller's model only once the update has succeeded)
MarkClusterDeleted_late(t, model, fault) ==
    LET marked == [model EXCEPT !.Active = FALSE]
        res == Update(t, marked, fault)
    IN [err |-> res.err, table |-> res.table,
        model |-> IF res.err = NoErr THEN marked ELSE model]

\* (the soft delete done as a Delete)
MarkClusterDeleted_hard(t, model, fault) ==
    LET marked == [model EXCEPT !.Active = FALSE]
        res == Delete(t, marked, fault)
    IN [err |-> res.err, table |-> res.table, model |-> marked]

MarkClusterDeleted(t, model, fault) ==
    LET marked == [model EXCEPT !.Active = FALSE]
        res == Update(t, marked, fault)
    IN [err |-> res.err, table |-> res.table, model |-> marked]

UpdateClusterConnectionStatus(t, clusterId, errorInConnecting, fault) ==
    IF fault \/ ~WhereColumnsResolve({"ID"})
             \/ ~SetColumnResolves("ErrorInConnecting = ?")
    THEN [err |-> ErrStatus, table |-> t]
    ELSE [err |-> NoErr,
          table |-> [i \in DOMAIN t |->
                       IF i = clusterId /\ i \in StoredIds(t)
                       THEN [t[i] EXCEPT !.ErrorInConnecting = errorInConnecting]
                       ELSE t[i]]]

FindOneActive(t, clusterName, fault) ==
    LET res == gormFind(t, {"ClusterName", "Active"}, {"string", "bool"},
                        {i \in ActiveIds(t) : t[i].ClusterName = clusterName}, fault)
        conv == convertToModel(FirstRow(t, res.ids))
    IN IF res.err # NoErr THEN [err |-> res.err, out |-> Nil]
       ELSE IF conv.err # NoErr THEN [err |-> ErrFetch, out |-> Nil]
       ELSE [err |-> NoErr, out |-> conv.bean]

FindOne(t, clusterName, fault) == FindOneActive(t, clusterName, fault)

\* the beans of the rows that decode
DecodedBeans(t, ids) ==
    {convertToModel(t[i]).bean : i \in {j \in ids : convertToModel(t[j]).err = NoErr}}

FindAllActive(t, fault) ==
    LET res == gormFind(t, {"Active"}, {"bool"}, ActiveIds(t), fault)
    IN IF res.err # NoErr THEN [err |-> res.err, out |-> {}]
       ELSE [err |-> NoErr, out |-> DecodedBeans(t, res.ids)]

FindAll(t, fault) == FindAllActive(t, fault)

FindById(t, id, fault) ==
    LET res == gormFind(t, {"ID", "Active"}, {"int", "bool"},
                        {i \in ActiveIds(t) : i = id}, fault)
        conv == convertToModel(FirstRow(t, res.ids))
    IN IF res.err # NoErr THEN [err |-> res.err, out |-> Nil]
       ELSE IF conv.err # NoErr THEN [err |-> ErrFetch, out |-> Nil]
       ELSE [err |-> NoErr, out |-> conv.bean]

\* the id list goes in wrapped by go-pg's pg.In
FindByIds(t, id, fault) ==
    LET res == gormFind(t, {"ID", "Active"}, {"types.inOp", "bool"},
                        {i \in ActiveIds(t) : i \in id}, fault)
    IN IF res.err # NoErr THEN [err |-> res.err, out |-> {}]
       ELSE [err |-> NoErr, out |-> DecodedBeans(t, res.ids)]

\* ------------------------------------------------------------ state machine
VARIABLES
    table,      \* the rows of the cluster table, by id
    seq,        \* the largest id the table ever held (sqlite_sequence)
    savedIds,   \* history: the ids of the rows Save has inserted
    last,       \* the last call: the operation, the id it was about (the
                \* one Save generated, the model's, the clusterId) and
                \* the error it returned
    hasTable,   \* the database file holds the cluster table
    created,    \* history: the times CreateTable has run on the file
    process,    \* the process: down, up (the repository constructed) or
                \* exited by logger.Fatal; the path its connection is
                \* open on; the steps of its start that failed
    threads,    \* the calls of Update in flight, by thread
    codec       \* a Config on its way through the Encoding Adapter: the
                \* mapping, the entity made of it, the model read back

vars == <<table, seq, savedIds, last, hasTable, created, process, threads, codec>>

\* the models callers pass: cluster c1 carries a token, c2 no config
ConfigOf == [c1 |-> TokenMap, c2 |-> NilMap]

Cluster(id, name, errorInConnecting, active) ==
    [Id |-> id, ClusterName |-> name, ServerUrl |-> "https://k8s",
     Config |-> ConfigOf[name], K8sVersion |-> "1.24",
     ErrorInConnecting |-> errorInConnecting, Active |-> active,
     CreatedOn |-> 1, CreatedBy |-> 1, UpdatedOn |-> 1, UpdatedBy |-> 1]

Models ==
    {Cluster(id, name, e, a) :
        id \in 0..MaxId, name \in ClusterNames, e \in ConnErrors, a \in BOOLEAN}

\* Save is called with the Id unset
NewModels == {m \in Models : m.Id = 0}

\* Delete reads nothing of its model but the Id
DeleteModels == {Cluster(id, "c1", "", TRUE) : id \in 0..MaxId}

\* MarkClusterDeleted overwrites the Active its model comes with
ActiveModels == {m \in Models : m.Active}

\* rows a table file may hold when it is opened: written by an earlier
\* run, or by another writer of the file (text that does not decode, a
\* NULL active)
StoredRow(cfg, active) ==
    [ZeroEntity EXCEPT !.ID = 1, !.ClusterName = "c1", !.ServerUrl = "https://k8s",
                       !.Config = cfg, !.Active = active, !.K8sVersion = "1.24"]

CorruptText == <<"{", "token">>

InitialTables ==
    { [i \in Ids |-> ZeroEntity] }
    \cup { [i \in Ids |-> IF i = 1 THEN r ELSE ZeroEntity] :
             r \in { StoredRow(CorruptText, Ptr(TRUE)),
                     StoredRow(<<"{", "token", ":", "abc", "}">>, NilPtr) } }

NoCall == [op |-> "none", id |-> 0, err |-> NoErr]

\* the file the repository keeps its table in, under the home directory
DbFile == "~/.kube/.devtron/cluster.db"

Down == [state |-> "down", dbPath |-> "none", failed |-> {}]
\* the process after NewClusterRepositoryFileBased has returned
Serving == [state |-> "up", dbPath |-> DbFile, failed |-> {}]

Threads == {"t1", "t2"}
Idle == [pc |-> "idle", model |-> Nil, err |-> NoErr]

NoConversion == [stage |-> "none", m |-> NilMap, entity |-> ZeroEntity,
                 err |-> NoErr, bean |-> Nil]

Call(op, id, err) == [op |-> op, id |-> id, err |-> err]

Init ==
    /\ table \in InitialTables
    /\ seq = MaxOf(StoredIds(table))
    /\ savedIds = {}
    /\ last = NoCall
    /\ hasTable = TRUE
    /\ created = 0
    /\ process = Serving
    /\ threads = [t \in Threads |-> Idle]
    /\ codec = NoConversion

DoSave ==
    \E model \in NewModels, fault \in BOOLEAN :
        LET r == Save(table, seq, model, fault)
        IN /\ NextId(table, seq) <= MaxId
           /\ table' = r.table
           /\ seq' = r.seq
           /\ savedIds' = IF r.err = NoErr THEN savedIds \cup {r.model.Id} ELSE savedIds
           /\ last' = Call("Save", r.model.Id, r.err)
           /\ UNCHANGED <<hasTable, created, process, threads, codec>>

DoUpdate ==
    \E model \in Models, fault \in BOOLEAN :
        LET r == Update(table, model, fault)
        IN /\ table' = r.table
           /\ last' = Call("Update", model.Id, r.err)
           /\ UNCHANGED <<seq, savedIds, hasTable, created, process, threads, codec>>

DoDelete ==
    \E model \in DeleteModels, fault \in BOOLEAN :
        LET r == Delete(table, model, fault)
        IN /\ table' = r.table
           /\ last' = Call("Delete", model.Id, r.err)
           /\ UNCHANGED <<seq, savedIds, hasTable, created, process, threads, codec>>

DoMarkClusterDeleted ==
    \E model \in ActiveModels, fault \in BOOLEAN :
        LET r == MarkClusterDeleted(table, model, fault)
        IN /\ table' = r.table
           /\ last' = Call("MarkClusterDeleted", model.Id, r.err)
           /\ UNCHANGED <<seq, savedIds, hasTable, created, process, threads, codec>>

DoUpdateClusterConnectionStatus ==
    \E clusterId \in 0..MaxId, s \in ConnErrors, fault \in BOOLEAN :
        LET r == UpdateClusterConnectionStatus(table, clusterId, s, fault)
        IN /\ table' = r.table
           /\ last' = Call("UpdateClusterConnectionStatus", clusterId, r.err)
           /\ UNCHANGED <<seq, savedIds, hasTable, created, process, threads, codec>>

DoFindOne ==
    \E clusterName \in ClusterNames, fault \in BOOLEAN :
        /\ last' = Call("FindOne", 0, FindOne(table, clusterName, fault).err)
        /\ UNCHANGED <<table, seq, savedIds, hasTable, created, process, threads, codec>>

DoFindOneActive ==
    \E clusterName \in ClusterNames, fault \in BOOLEAN :
        /\ last' = Call("FindOneActive", 0, FindOneActive(table, clusterName, fault).err)
        /\ UNCHANGED <<table, seq, savedIds, hasTable, created, process, threads, codec>>

DoFindAll ==
    \E fault \in BOOLEAN :
        /\ last' = Call("FindAll", 0, FindAll(table, fault).err)
        /\ UNCHANGED <<table, seq, savedIds, hasTable, created, process, threads, codec>>

DoFindAllActive ==
    \E fault \in BOOLEAN :
        /\ last' = Call("FindAllActive", 0, FindAllActive(table, fault).err)
        /\ UNCHANGED <<table, seq, savedIds, hasTable, created, process, threads, codec>>

DoFindById ==
    \E id \in 0..MaxId, fault \in BOOLEAN :
        /\ last' = Call("FindById", 0, FindById(table, id, fault).err)
        /\ UNCHANGED <<table, seq, savedIds, hasTable, created, process, threads, codec>>

DoFindByIds ==
    \E id \in SUBSET Ids, fault \in BOOLEAN :
        /\ last' = Call("FindByIds", 0, FindByIds(table, id, fault).err)
        /\ UNCHANGED <<table, seq, savedIds, hasTable, created, process, threads, codec>>

Next ==
    \/ DoSave
    \/ DoUpdate
    \/ DoDelete
    \/ DoMarkClusterDeleted
    \/ DoUpdateClusterConnectionStatus
    \/ DoFindOne
    \/ DoFindOneActive
    \/ DoFindAll
    \/ DoFindAllActive
    \/ DoFindById
    \/ DoFindByIds

Spec == Init /\ [][Next]_vars

\* ------------------------------------------------------------ process start
\* what can go wrong while the process starts: os.UserHomeDir, os.MkdirAll,
\* gorm.Open, Migrator().CreateTable
Envs == [home : BOOLEAN, mkdir : BOOLEAN, open : BOOLEAN, create : BOOLEAN]

FatalOpen == "fatal: error occurred while opening db connection"
FatalCreate == "fatal: error occurred while creating cluster table"

createOrCheckClusterDbPath(env) ==
    IF env.home THEN [err |-> "home", path |-> ""]
    ELSE IF env.mkdir THEN [err |-> "mkdir", path |-> ""]
    ELSE [err |-> NoErr, path |-> DbFile]

\* (CreateTable run without asking HasTable first: it fails on a file
\* that has the table)
NewClusterRepositoryFileBased_noCheck(fileHasTable, env) ==
    LET p == createOrCheckClusterDbPath(env)
        dirFailed == IF p.err = NoErr THEN {} ELSE {p.err}
        dbHasTable == p.path = DbFile /\ fileHasTable
    IN IF env.open
       THEN [state |-> "fatal", dbPath |-> "none", failed |-> dirFailed \cup {"open"},
             hasTable |-> fileHasTable, createdTable |-> 0, err |-> FatalOpen]
       ELSE IF env.create \/ dbHasTable
       THEN [state |-> "fatal", dbPath |-> "none",
             failed |-> dirFailed \cup (IF env.create THEN {"create"} ELSE {}),
             hasTable |-> fileHasTable, createdTable |-> 0, err |-> FatalCreate]
       ELSE [state |-> "up", dbPath |-> p.path, failed |-> dirFailed,
             hasTable |-> (p.path = DbFile \/ fileHasTable),
             createdTable |-> IF p.path = DbFile THEN 1 ELSE 0, err |-> NoErr]

\* The error createOrCheckClusterDbPath returns is assigned anew by
\* gorm.Open before it is read, and the path it returns with an error is
\* the empty one, which SQLite opens as a private temporary database: one
\* without the table.
NewClusterRepositoryFileBased(fileHasTable, env) ==
    LET p == createOrCheckClusterDbPath(env)
        dirFailed == IF p.err = NoErr THEN {} ELSE {p.err}
        dbHasTable == p.path = DbFile /\ fileHasTable
    IN IF env.open
       THEN [state |-> "fatal", dbPath |-> "none", failed |-> dirFailed \cup {"open"},
             hasTable |-> fileHasTable, createdTable |-> 0, err |-> FatalOpen]
       ELSE IF dbHasTable
       THEN [state |-> "up", dbPath |-> p.path, failed |-> dirFailed,
             hasTable |-> fileHasTable, createdTable |-> 0, err |-> NoErr]
       ELSE IF env.create
       THEN [state |-> "fatal", dbPath |-> "none", failed |-> dirFailed \cup {"create"},
             hasTable |-> fileHasTable, createdTable |-> 0, err |-> FatalCreate]
       ELSE [state |-> "up", dbPath |-> p.path, failed |-> dirFailed,
             hasTable |-> (p.path = DbFile \/ fileHasTable),
             createdTable |-> IF p.path = DbFile THEN 1 ELSE 0, err |-> NoErr]

\* the database file before the first start: without the table, or with
\* the table an earlier run left
BootInit ==
    /\ hasTable \in BOOLEAN
    /\ table \in (IF hasTable THEN InitialTables ELSE {[i \in Ids |-> ZeroEntity]})
    /\ seq = MaxOf(StoredIds(table))
    /\ savedIds = {}
    /\ last = NoCall
    /\ created = 0
    /\ process = Down
    /\ threads = [t \in Threads |-> Idle]
    /\ codec = NoConversion

DoNewClusterRepositoryFileBased ==
    \E env \in Envs :
        LET r == NewClusterRepositoryFileBased(hasTable, env)
        IN /\ process.state = "down"
           /\ process' = [state |-> r.state, dbPath |-> r.dbPath, failed |-> r.failed]
           /\ hasTable' = r.hasTable
           /\ created' = created + r.createdTable
           /\ last' = Call("NewClusterRepositoryFileBased", 0, r.err)
           /\ UNCHANGED <<table, seq, savedIds, threads, codec>>

\* the process ends (os.Exit in logger.Fatal, or a shutdown); the file
\* stays
StopProcess ==
    /\ process.state # "down"
    /\ process' = Down
    /\ UNCHANGED <<table, seq, savedIds, last, hasTable, created, threads, codec>>

\* the repository is constructed on the database file (the rows of a
\* temporary database are not part of the model)
Connected == process.state = "up" /\ process.dbPath = DbFile /\ hasTable

BootNext ==
    \/ DoNewClusterRepositoryFileBased
    \/ StopProcess
    \/ (Connected /\ DoSave)
    \/ (Connected /\ DoDelete)

BootSpec == BootInit /\ [][BootNext]_vars

\* -------------------------------------------------------- config round trip
\* the mappings a Cluster's Config may hold: absent, empty, and the maps
\* over the keys with empty, plain, quoted and non-UTF-8 values
ConfigValues == {"", "abc", QuotedString, InvalidUtf8, ReplacementChar}

ConfigMaps ==
    {NilMap, [isNil |-> FALSE, kv |-> <<>>]}
    \cup UNION { {[isNil |-> FALSE, kv |-> f] : f \in [D -> ConfigValues]} :
                   D \in SUBSET {"host", "token"} \ {{}} }

CodecInit ==
    /\ table = [i \in Ids |-> ZeroEntity]
    /\ seq = 0
    /\ savedIds = {}
    /\ last = NoCall
    /\ hasTable = TRUE
    /\ created = 0
    /\ process = Serving
    /\ threads = [t \in Threads |-> Idle]
    /\ \E m \in ConfigMaps : codec = [NoConversion EXCEPT !.stage = "model", !.m = m]

\* a write's convertToEntity of a model with the Config m
Encode ==
    LET conv == convertToEntity([Cluster(0, "c1", "", TRUE) EXCEPT !.Config = codec.m])
    IN /\ codec.stage = "model"
       /\ codec' = [codec EXCEPT !.stage = IF conv.err = NoErr THEN "entity" ELSE "failed",
                                 !.entity = conv.entity, !.err = conv.err]
       /\ UNCHANGED <<table, seq, savedIds, last, hasTable, created, process, threads>>

\* a read's convertToModel of that entity
Decode ==
    LET conv == convertToModel(codec.entity)
    IN /\ codec.stage = "entity"
       /\ codec' = [codec EXCEPT !.stage = IF conv.err = NoErr THEN "decoded" ELSE "failed",
                                 !.err = conv.err, !.bean = conv.bean]
       /\ UNCHANGED <<table, seq, savedIds, last, hasTable, created, process, threads>>

CodecNext == Encode \/ Decode

CodecSpec == CodecInit /\ [][CodecNext]_vars

\* ------------------------------------------------------ concurrent Updates
\* Two request threads call Update through the one connection handle.
\* The statement of an Update is one UPDATE, which SQLite runs under its
\* write lock: whole, and one at a time.

\* the row the threads update, and the records they bring for it
SharedId == 1
UpdateModels == {m \in Models : m.Id = SharedId}

\* the row as a Save without a connection error left it
ConcInit ==
    /\ \E n \in ClusterNames :
         table = [i \in Ids |->
                    IF i = SharedId
                    THEN convertToEntity(Cluster(SharedId, n, "", TRUE)).entity
                    ELSE ZeroEntity]
    /\ seq = SharedId
    /\ savedIds = {SharedId}
    /\ last = NoCall
    /\ hasTable = TRUE
    /\ created = 0
    /\ process = Serving
    /\ threads = [t \in Threads |-> Idle]
    /\ codec = NoConversion

\* the call and its convertToEntity, which touch the thread's own data
CallUpdate(t) ==
    /\ threads[t].pc = "idle"
    /\ \E model \in UpdateModels :
         threads' = [threads EXCEPT ![t] = [pc |-> "converted", model |-> model,
                                            err |-> convertToEntity(model).err]]
    /\ UNCHANGED <<table, seq, savedIds, last, hasTable, created, process, codec>>

\* db.Model(entity).Updates(entity) and the error it is turned into
ExecUpdates(t) ==
    /\ threads[t].pc = "converted"
    /\ \E fault \in BOOLEAN :
         LET r == Update(table, threads[t].model, fault)
         IN /\ table' = r.table
            /\ threads' = [threads EXCEPT ![t].pc = "executed", ![t].err = r.err]
    /\ UNCHANGED <<seq, savedIds, last, hasTable, created, process, codec>>

ReturnUpdate(t) ==
    /\ threads[t].pc = "executed"
    /\ threads' = [threads EXCEPT ![t].pc = "returned"]
    /\ last' = Call("Update", threads[t].model.Id, threads[t].err)
    /\ UNCHANGED <<table, seq, savedIds, hasTable, created, process, codec>>

ConcNext ==
    \E t \in Threads :
        \/ CallUpdate(t)
        \/ ExecUpdates(t)
        \/ ReturnUpdate(t)

ConcSpec == ConcInit /\ [][ConcNext]_vars

\* ------------------------------------------------------------------ claims
\* what the call recorded in last was
Succeeded(op) == last.op = op /\ last.err = NoErr
Succeeds(op) == last'.op = op /\ last'.err = NoErr

\* row i comes back from some read of table t
Visible(t, i) ==
    \E fault \in BOOLEAN :
        \/ \E n \in ClusterNames : FindOne(t, n, fault).out.Id = i
        \/ \E n \in ClusterNames : FindOneActive(t, n, fault).out.Id = i
        \/ \E b \in FindAll(t, fault).out : b.Id = i
        \/ \E b \in FindAllActive(t, fault).out : b.Id = i
        \/ FindById(t, i, fault).out.Id = i
        \/ \E id \in SUBSET Ids : \E b \in FindByIds(t, id, fault).out : b.Id = i

SoftDeleted(t, i) == i \in StoredIds(t) /\ t[i].Active = Ptr(FALSE)

\* C1: a soft-deleted row comes back from no read (FindOne, FindOneActive,
\* FindAll, FindAllActive, FindById, FindByIds); a successful
\* MarkClusterDeleted(c) of a stored row leaves it soft-deleted; and a
\* soft-deleted row stays soft-deleted for as long as it is stored, but
\* for a successful Update of its Id that makes its Active true.
C1_SoftDeleteVisibility ==
    /\ [](\A i \in Ids : SoftDeleted(table, i) => ~Visible(table, i))
    /\ [][ /\ (Succeeds("MarkClusterDeleted") /\ last'.id \in StoredIds(table))
                => SoftDeleted(table', last'.id)
            /\ \A i \in Ids :
                 (SoftDeleted(table, i) /\ i \in StoredIds(table')
                                        /\ ~SoftDeleted(table', i))
                 => (Succeeds("Update") /\ last'.id = i
                                        /\ table'[i].Active = Ptr(TRUE))
          ]_vars

\* a saved row was marked deleted while another row stays readable
C1_Witness ==
    /\ Succeeded("MarkClusterDeleted")
    /\ last.id \in savedIds
    /\ SoftDeleted(table, last.id)
    /\ \E j \in Ids : j # last.id /\ Visible(table, j)

\* C2: a successful Update(c) whose Id matches a stored row leaves every
\* field of the row equal to the value c carries, empty and zero values
\* included.
C2_UpdateOverwritesEveryField ==
    \A c \in Models :
        LET r == Update(table, c, FALSE)
        IN (r.err = NoErr /\ c.Id \in StoredIds(table))
              => r.table[c.Id] = convertToEntity(c).entity

\* the beans a read hands back
Returned(t) ==
    UNION { FindAll(t, f).out \cup FindAllActive(t, f).out : f \in BOOLEAN }
    \cup UNION { FindByIds(t, id, f).out : id \in SUBSET Ids, f \in BOOLEAN }
    \cup { FindById(t, i, f).out : i \in Ids, f \in BOOLEAN }
    \cup { FindOne(t, n, f).out : n \in ClusterNames, f \in BOOLEAN }
    \cup { FindOneActive(t, n, f).out : n \in ClusterNames, f \in BOOLEAN }

\* C3: in every reachable state no read returns a stored row whose Active
\* is false or NULL.
C3_ReadsReturnOnlyActiveRows ==
    \A b \in Returned(table) :
        b.Id \in StoredIds(table) => table[b.Id].Active = Ptr(TRUE)

\* FindAllActive has returned the active rows of a table that also holds
\* a row with Active false or NULL
C3_Witness ==
    /\ Succeeded("FindAllActive")
    /\ FindAllActive(table, FALSE).out # {}
    /\ \E i \in StoredIds(table) : table[i].Active = Ptr(FALSE) \/ table[i].Active.nil

C5_SaveThenFindOne ==
    (Succeeded("Save") /\ table[last.id].Active = Ptr(TRUE))
        => LET c == table[last.id]
               r == FindOne(table, c.ClusterName, FALSE)
           IN /\ r.err = NoErr
              /\ r.out.Id = last.id
              /\ r.out.Config.kv = ConfigOf[c.ClusterName].kv
              /\ r.out.Active

\* C6: UpdateClusterConnectionStatus(id, s) on an existing active row
\* succeeds, FindById(id).ErrorInConnecting is then s, and every other
\* field of the row and every other row is as before.
C6_ConnectionStatusOnly ==
    \A id \in ActiveIds(table), s \in ConnErrors :
        LET r == UpdateClusterConnectionStatus(table, id, s, FALSE)
        IN /\ r.err = NoErr
           /\ FindById(r.table, id, FALSE).out.ErrorInConnecting = s
           /\ r.table = [table EXCEPT ![id].ErrorInConnecting = s]

Decodable(t) == {i \in ActiveIds(t) : convertToModel(t[i]).err = NoErr}

\* C9: with N active rows of which k do not decode, FindAll and
\* FindAllActive return without error exactly the N-k decodable rows, and
\* FindByIds returns without error exactly the decodable active rows of
\* its id set.
C9_BatchReadsSkipBadRows ==
    (ActiveIds(table) # Decodable(table) /\ Decodable(table) # {})
        => /\ FindAll(table, FALSE) = FindAllActive(table, FALSE)
           /\ FindAllActive(table, FALSE) =
                [err |-> NoErr,
                 out |-> {convertToModel(table[i]).bean : i \in Decodable(table)}]
           /\ \A id \in SUBSET Ids :
                FindByIds(table, id, FALSE) =
                  [err |-> NoErr,
                   out |-> {convertToModel(table[i]).bean : i \in Decodable(table) \cap id}]

\* C10: an error a repository operation returns is one of the repository's
\* own fixed errors, never the engine's error value.
C10_ErrorsAreGeneric ==
    last.err # NoErr => last.err \in RepositoryErrors

\* the result of a lookup that found nothing: a Cluster with every field
\* zero and an empty Config
NotFound == convertToModel(ZeroEntity).bean

\* C11: FindOne/FindOneActive(name) with no active row of that name, and
\* FindById(id) with no active row of that id, return no error and a zero
\* Cluster that carries the data of no stored row.
C11_NotFoundIsNotAFailure ==
    /\ \A n \in ClusterNames :
         (~\E i \in ActiveIds(table) : table[i].ClusterName = n)
            => /\ FindOne(table, n, FALSE) = [err |-> NoErr, out |-> NotFound]
               /\ FindOneActive(table, n, FALSE) = [err |-> NoErr, out |-> NotFound]
    /\ \A id \in 0..MaxId :
         id \notin ActiveIds(table)
            => FindById(table, id, FALSE) = [err |-> NoErr, out |-> NotFound]

\* the config text of row i does not decode
Corrupt(t, i) == Len(t[i].Config) > 0 /\ ~jsonUnmarshal(t[i].Config).ok

SingleRowReads == {"FindOne", "FindOneActive", "FindById"}

\* C12: when the active row a single-row read matches (FindById by id,
\* FindOne/FindOneActive by name) has config text that does not decode,
\* the read returns an error and no Cluster; and a single-row read leaves
\* the store as it was.
C12_CorruptRowFailsSingleRead ==
    /\ [](\A fault \in BOOLEAN :
            /\ \A id \in ActiveIds(table) :
                 Corrupt(table, id)
                    => LET r == FindById(table, id, fault)
                       IN r.err # NoErr /\ r.out = Nil
            /\ \A n \in ClusterNames :
                 LET ids == {i \in ActiveIds(table) : table[i].ClusterName = n}
                 IN (ids # {} /\ Corrupt(table, MinOf(ids)))
                      => /\ FindOne(table, n, fault).err # NoErr
                         /\ FindOne(table, n, fault).out = Nil
                         /\ FindOneActive(table, n, fault).err # NoErr
                         /\ FindOneActive(table, n, fault).out = Nil)
    /\ [][last'.op \in SingleRowReads => UNCHANGED <<table, seq>>]_vars

\* FindById has failed on the decoding of the active row it matched, with
\* a decodable active row stored next to it
C12_Witness ==
    /\ last.op = "FindById"
    /\ last.err = ErrFetch
    /\ \E i \in ActiveIds(table) : Corrupt(table, i)
    /\ \E j \in ActiveIds(table) : ~Corrupt(table, j)

\* C13: when resolving or creating the storage directory, opening the
\* engine, or creating the missing table fails, the start ends in the
\* fatal outcome: no repository is constructed after any of the failures.
C13_InitializationFailureIsFatal ==
    process.failed # {} => process.state = "fatal"

\* C14: a start that meets no failure of its environment ends with the
\* repository constructed, whatever the starts before it; it creates the
\* table only when the file has none, so at most once per file; and it
\* leaves the rows of the table as they were.
C14_IdempotentBootstrap ==
    /\ [](created <= 1)
    /\ [][ (process.state = "down" /\ process'.state # "down"
                                    /\ process'.failed = {})
              => /\ process' = Serving
                 /\ hasTable'
                 /\ created' = IF hasTable THEN created ELSE created + 1
                 /\ table' = table /\ seq' = seq
         ]_vars

\* the process was started again on a file whose table an earlier start
\* created and an earlier run saved rows into
C14_Witness ==
    /\ last.op = "NewClusterRepositoryFileBased"
    /\ process = Serving
    /\ created = 1
    /\ savedIds # {}
    /\ StoredIds(table) # {}

\* C15: for every mapping m, the empty and the absent one included,
\* decoding what convertToEntity encodes succeeds and gives exactly the
\* key-value pairs of m.
C15_ConfigRoundTrip ==
    /\ codec.stage # "failed"
    /\ codec.stage = "decoded" => codec.bean.Config.kv = codec.m.kv

\* C16: FindByIds(ids) returns without error exactly the stored rows whose
\* Id is in ids, whose Active is true and whose config decodes, the other
\* ids being left out; so with saved rows among ids it returns those of
\* them that are active (both rows after Save(c1), Save(c2)).
C16_FindByIdsReturnsTheActiveRows ==
    \A ids \in SUBSET Ids :
        ids \cap savedIds # {}
           => LET r == FindByIds(table, ids, FALSE)
              IN /\ r.err = NoErr
                 /\ {b.Id : b \in r.out} = {i \in ids \cap ActiveIds(table) : ~Corrupt(table, i)}
                 /\ \A b \in r.out : b = convertToModel(table[b.Id]).bean

\* C17: when two threads have called Update on the same Id with different
\* records and both calls have returned without error, the stored row
\* equals, field for field, the record of one of the two callers: it is
\* never a mixture of the two records.
C17_LastWriterWins ==
    (/\ \A t \in Threads : threads[t].pc = "returned" /\ threads[t].err = NoErr
     /\ threads["t1"].model # threads["t2"].model)
        => \E t \in Threads :
              table[SharedId] = convertToEntity(threads[t].model).entity

\* the Active a reader takes from a stored row (convertToModel)
IsActive(row) == ~row.Active.nil /\ row.Active.val

\* C18 as claimed: after MarkClusterDeleted(c) returns, c.Active is false,
\* whether the call failed or not; when it failed, the store is as it
\* was, and the model and the stored row of c.Id disagree on Active.
C18_FailedSoftDeleteDisagrees ==
    \A model \in ActiveModels, fault \in BOOLEAN :
        LET r == MarkClusterDeleted(table, model, fault)
        IN /\ r.model.Active = FALSE
           /\ r.err # NoErr
                => /\ r.table = table
                   /\ model.Id \in savedIds \cap StoredIds(table)
                        => IsActive(r.table[model.Id]) # r.model.Active

\* C18, amended: after MarkClusterDeleted(c) returns, c.Active is false,
\* whether the call failed or not; when it failed, the store is as it
\* was, so that the model and the stored row of c.Id disagree on Active
\* exactly when the row was active before the call.
C18_FailedSoftDeleteKeepsRow ==
    /\ [](\A model \in ActiveModels, fault \in BOOLEAN :
            LET r == MarkClusterDeleted(table, model, fault)
            IN /\ r.model.Active = FALSE
               /\ r.err # NoErr
                    => /\ r.table = table
                       /\ model.Id \in StoredIds(table)
                            => ((IsActive(r.table[model.Id]) # r.model.Active)
                                  <=> IsActive(table[model.Id])))
    /\ [][(last'.op = "MarkClusterDeleted" /\ last'.err # NoErr)
             => table' = table]_vars

\* MarkClusterDeleted has failed on a saved row that is active, and the
\* row is active still
C18_Witness ==
    /\ last.op = "MarkClusterDeleted"
    /\ last.err = ErrUpdate
    /\ last.id \in savedIds
    /\ last.id \in ActiveIds(table)

====
